---------------------------- MODULE Spec2Model ----------------------------
(***************************************************************************)
(* Leader-for-life election (pkg/leader/leader.go).                        *)
(*                                                                         *)
(* Every candidate is a process running in a Pod.  The process calls       *)
(* Become (or TryBecome) once at start-up.  Become resolves its namespace, *)
(* a client and an owner reference to its own Pod, reads the lock          *)
(* ConfigMap once, and then loops on Create until the create succeeds.     *)
(* The lock is removed only by the garbage collector, after the Pod its    *)
(* owner reference names has been removed.                                 *)
(***************************************************************************)
EXTENDS Naturals, Sequences, FiniteSets

\* ------------------------------------------------------------------ bounds
\* Number of Pods that ever exist.  Pods are numbered in the order in which
\* they are created, and Pod p has UID p.
NumPods == 3
\* Cap on the number of Create calls one Become call issues in the model
\* (the loop of the code has no ceiling).
MaxCreates == 2

Pods == 1..NumPods

\* The Pod's name (the hostname of the process running in it).  The last Pod
\* reuses the name of the first one: a Pod re-created under the same name
\* gets a new UID.
PodName(p) == IF p = NumPods THEN 1 ELSE p

\* Namespaces, as the text the service-account file holds once trimmed.
NS1 == <<"n", "1">>
NS2 == <<"n", "2">>
Namespaces == {NS1, NS2}

\* The names an application passes to Become.
LockNames == {"app-lock"}

\* Where the Pods run: all in one namespace, or the second Pod on its own.
NSLayouts ==
    { [p \in Pods |-> NS1],
      [p \in Pods |-> IF p = 2 THEN NS2 ELSE NS1] }

\* ------------------------------------------------------------------ values
NoRecord == [kind |-> "none"]
NoOwner == [Kind |-> "none"]
NoNS == <<>>

\* Become's return values.  "nil" is success.
ErrNoNS == "ErrNoNS"
Errors == {"ErrNoNS", "ErrReadNS", "ErrClientset", "ErrHostname",
           "ErrGetPod", "ErrGetConfigMap", "ErrCreateConfigMap"}

VARIABLES
    podNS,      \* the namespace each Pod runs in
    podState,   \* "pending" | "live" | "gone"
    store,      \* ConfigMaps: [namespace, name] -> record or NoRecord
    entry,      \* the entry point the application calls: "Become" | "TryBecome"
    pc,         \* where each candidate's call stands
    name,       \* Become's argument
    ns,         \* Become's local ns
    client,     \* Become's local client
    owner,      \* Become's local owner
    berr,       \* what Become returned ("running" until it returns)
    ret,        \* what the entry point returned ("running" until it returns)
    log         \* the calls this Become call has made, with their outcomes

vars == <<podNS, podState, store, entry, pc, name, ns, client, owner, berr, ret, log>>

env == <<podNS, podState, entry>>

\* ----------------------------------------------------------- pure helpers
IsSpace(ch) == ch \in {" ", "\n", "\t", "\r"}

RECURSIVE TrimLeft(_)
TrimLeft(s) ==
    IF s # <<>> /\ IsSpace(Head(s)) THEN TrimLeft(Tail(s)) ELSE s

RECURSIVE TrimRight(_)
TrimRight(s) ==
    IF s # <<>> /\ IsSpace(s[Len(s)])
    THEN TrimRight(SubSeq(s, 1, Len(s) - 1))
    ELSE s

\* strings.TrimSpace
TrimSpace(s) == TrimRight(TrimLeft(s))

\* What the namespace file of a Pod running in namespace n may hold.
NSFileContents(n) == {n, n \o <<"\n">>, <<" ">> \o n \o <<"\n", "\n">>}

\* TryBecome without the conversion.
TryBecomePassesAll(err) == err

\* TryBecome swallowing every error.
TryBecomeSwallowsAll(err) == "nil"

\* TryBecome's conversion of Become's result.
TryBecomeResult(err) == IF err = ErrNoNS THEN "nil" ELSE err

\* What the entry point returns when Become returns err.
EntryResult(e, err) == IF e = "TryBecome" THEN TryBecomeResult(err) ELSE err

\* The OwnerReference myOwnerRef builds from the Pod it read.
OwnerRefOf(q) == [APIVersion |-> "v1", Kind |-> "Pod", Name |-> PodName(q), UID |-> q]

\* The ConfigMap without its owner reference.
LockConfigMapNoOwner(nm, n, o) ==
    [kind |-> "ConfigMap", Name |-> nm, Namespace |-> n, OwnerReferences |-> <<>>]

\* The ConfigMap Become builds.
LockConfigMap(nm, n, o) ==
    [kind |-> "ConfigMap", Name |-> nm, Namespace |-> n, OwnerReferences |-> <<o>>]

\* Pods(ns).Get(hostname): the Pods the API server holds under that key.
PodsGet(n, hostname) ==
    {q \in Pods : podState[q] = "live" /\ podNS[q] = n /\ PodName(q) = hostname}

\* The test of the loop over existing.GetOwnerReferences().
OwnerMatches(existingOwner, o) == existingOwner.Name = o.Name

FoundMyLock(existing, o) ==
    \E i \in DOMAIN existing.OwnerReferences :
        OwnerMatches(existing.OwnerReferences[i], o)

\* The calls of kind op in a call's log, and how many there are.
CallsOf(p, op) == {i \in DOMAIN log[p] : log[p][i].op = op}
Count(p, op) == Cardinality(CallsOf(p, op))

Logged(p, op, out) == log' = [log EXCEPT ![p] = Append(@, [op |-> op, out |-> out])]

\* --------------------------------------------------------------- initial
Init ==
    /\ podNS \in NSLayouts
    /\ podState = [p \in Pods |-> "pending"]
    /\ store = [k \in Namespaces \X LockNames |-> NoRecord]
    /\ entry \in {"Become", "TryBecome"}
    /\ pc = [p \in Pods |-> "idle"]
    /\ name = [p \in Pods |-> "none"]
    /\ ns = [p \in Pods |-> NoNS]
    /\ client = [p \in Pods |-> "none"]
    /\ owner = [p \in Pods |-> NoOwner]
    /\ berr = [p \in Pods |-> "running"]
    /\ ret = [p \in Pods |-> "running"]
    /\ log = [p \in Pods |-> <<>>]

\* The locals of a call that has not made any progress.
Cleared(p) ==
    /\ ns' = [ns EXCEPT ![p] = NoNS]
    /\ client' = [client EXCEPT ![p] = "none"]
    /\ owner' = [owner EXCEPT ![p] = NoOwner]
    /\ berr' = [berr EXCEPT ![p] = "running"]
    /\ ret' = [ret EXCEPT ![p] = "running"]
    /\ log' = [log EXCEPT ![p] = <<>>]

\* Become returns err (and the entry point returns with it).
Return(p, err) ==
    /\ pc' = [pc EXCEPT ![p] = "returned"]
    /\ berr' = [berr EXCEPT ![p] = err]
    /\ ret' = [ret EXCEPT ![p] = EntryResult(entry, err)]

\* ----------------------------------------------------------- environment
\* A Pod is created (the next one, in the order of the UIDs) and its process
\* starts and calls the entry point.  The API server holds at most one Pod
\* per (namespace, name).
StartPod(p, nm) ==
    /\ podState[p] = "pending"
    /\ \A q \in Pods : q < p => podState[q] # "pending"
    /\ PodsGet(podNS[p], PodName(p)) = {}
    /\ podState' = [podState EXCEPT ![p] = "live"]
    /\ pc' = [pc EXCEPT ![p] = "myNS"]
    /\ name' = [name EXCEPT ![p] = nm]
    /\ Cleared(p)
    /\ UNCHANGED <<podNS, store, entry>>

\* The Pod is removed; its process and the state of its call go with it.
DestroyPod(p) ==
    /\ podState[p] = "live"
    /\ podState' = [podState EXCEPT ![p] = "gone"]
    /\ pc' = [pc EXCEPT ![p] = "idle"]
    /\ name' = [name EXCEPT ![p] = "none"]
    /\ Cleared(p)
    /\ UNCHANGED <<podNS, store, entry>>

\* The process is restarted inside its Pod (same name, same UID) and calls
\* the entry point again.
Restart(p) ==
    /\ podState[p] = "live"
    /\ pc[p] # "myNS"
    /\ pc' = [pc EXCEPT ![p] = "myNS"]
    /\ Cleared(p)
    /\ UNCHANGED <<env, store, name>>

\* The garbage collector deletes a ConfigMap whose owner Pod no longer exists.
OwnerGone(rec) ==
    \A i \in DOMAIN rec.OwnerReferences :
        podState[rec.OwnerReferences[i].UID] = "gone"

GarbageCollect(k) ==
    /\ store[k] # NoRecord
    /\ OwnerGone(store[k])
    /\ store' = [store EXCEPT ![k] = NoRecord]
    /\ UNCHANGED <<env, pc, name, ns, client, owner, berr, ret, log>>

Running(p) == podState[p] = "live"

\* ---------------------------------------------------------------- Become
\* ns, err := myNS()
MyNS(p, outcome, content) ==
    /\ Running(p)
    /\ pc[p] = "myNS"
    /\ Logged(p, "myNS", outcome)
    /\ IF outcome = "ok"
       THEN /\ ns' = [ns EXCEPT ![p] = TrimSpace(content)]
            /\ pc' = [pc EXCEPT ![p] = "getClientset"]
            /\ UNCHANGED <<berr, ret>>
       ELSE /\ Return(p, IF outcome = "notexist" THEN ErrNoNS ELSE "ErrReadNS")
            /\ UNCHANGED ns
    /\ UNCHANGED <<env, store, name, client, owner>>

\* getClientset with its error ignored.
GetClientsetIgnoresError(p, outcome) ==
    /\ Running(p)
    /\ pc[p] = "getClientset"
    /\ Logged(p, "getClientset", outcome)
    /\ client' = [client EXCEPT ![p] = "clientset"]
    /\ pc' = [pc EXCEPT ![p] = "myOwnerRef"]
    /\ UNCHANGED <<env, store, name, ns, owner, berr, ret>>

\* client, err := getClientset()
GetClientset(p, outcome) ==
    /\ Running(p)
    /\ pc[p] = "getClientset"
    /\ Logged(p, "getClientset", outcome)
    /\ IF outcome = "ok"
       THEN /\ client' = [client EXCEPT ![p] = "clientset"]
            /\ pc' = [pc EXCEPT ![p] = "myOwnerRef"]
            /\ UNCHANGED <<berr, ret>>
       ELSE /\ Return(p, "ErrClientset")
            /\ UNCHANGED client
    /\ UNCHANGED <<env, store, name, ns, owner>>

\* owner, err := myOwnerRef(client, ns)
MyOwnerRef(p, fault) ==
    /\ Running(p)
    /\ pc[p] = "myOwnerRef"
    /\ LET found == PodsGet(ns[p], PodName(p))
           outcome == IF fault # "none" THEN fault
                      ELSE IF found = {} THEN "getpod" ELSE "ok"
       IN /\ Logged(p, "myOwnerRef", outcome)
          /\ IF outcome = "ok"
             THEN /\ owner' = [owner EXCEPT ![p] = OwnerRefOf(CHOOSE q \in found : TRUE)]
                  /\ pc' = [pc EXCEPT ![p] = "Get"]
                  /\ UNCHANGED <<berr, ret>>
             ELSE /\ Return(p, IF outcome = "hostname" THEN "ErrHostname" ELSE "ErrGetPod")
                  /\ UNCHANGED owner
    /\ UNCHANGED <<env, store, name, ns, client>>

\* GetSwitch without the check for a lock of the caller's own.
GetSwitchNoSelfCheck(p, existing, outcome) ==
    IF outcome = "Error"
    THEN Return(p, "ErrGetConfigMap")
    ELSE /\ pc' = [pc EXCEPT ![p] = "Create"]
         /\ UNCHANGED <<berr, ret>>

\* GetSwitch with NotFound returned like any other error of the read.
GetSwitchNotFoundFatal(p, existing, outcome) ==
    IF outcome \in {"Error", "NotFound"}
    THEN Return(p, "ErrGetConfigMap")
    ELSE IF outcome = "Found" /\ FoundMyLock(existing, owner[p])
    THEN Return(p, "nil")
    ELSE /\ pc' = [pc EXCEPT ![p] = "Create"]
         /\ UNCHANGED <<berr, ret>>

\* GetSwitch with every error of the read taken for NotFound.
GetSwitchErrorIsNotFound(p, existing, outcome) ==
    IF outcome = "Found" /\ FoundMyLock(existing, owner[p])
    THEN Return(p, "nil")
    ELSE /\ pc' = [pc EXCEPT ![p] = "Create"]
         /\ UNCHANGED <<berr, ret>>

\* The switch on the result of the read (lines 74-90).
GetSwitch(p, existing, outcome) ==
    IF outcome = "Error"
    THEN Return(p, "ErrGetConfigMap")
    ELSE IF outcome = "Found" /\ FoundMyLock(existing, owner[p])
    THEN Return(p, "nil")
    ELSE /\ pc' = [pc EXCEPT ![p] = "Create"]
         /\ UNCHANGED <<berr, ret>>

\* The key with the namespace left at a fixed one.
LockKeyFixedNS(p) == <<NS1, name[p]>>

\* The key of the lock: ConfigMaps(ns) and the ConfigMap's name.
LockKey(p) == <<ns[p], name[p]>>

\* existing, err := client.CoreV1().ConfigMaps(ns).Get(name, ...)
GetLock(p, fault) ==
    /\ Running(p)
    /\ pc[p] = "Get"
    /\ LET existing == store[LockKey(p)]
           outcome == IF fault THEN "Error"
                      ELSE IF existing = NoRecord THEN "NotFound" ELSE "Found"
       IN /\ Logged(p, "Get", outcome)
          /\ GetSwitch(p, existing, outcome)
    /\ UNCHANGED <<env, store, name, ns, client, owner>>

\* CreateSwitch with AlreadyExists taken for success.
CreateSwitchConflictOk(p, outcome) ==
    IF outcome \in {"Created", "AlreadyExists"}
    THEN Return(p, "nil")
    ELSE Return(p, "ErrCreateConfigMap")

\* CreateSwitch with AlreadyExists returned as an error.
CreateSwitchConflictFatal(p, outcome) ==
    IF outcome = "Created"
    THEN Return(p, "nil")
    ELSE Return(p, "ErrCreateConfigMap")

\* CreateSwitch with the loop going on after a successful create.
CreateSwitchKeepsLooping(p, outcome) ==
    IF outcome = "Created"
    THEN /\ pc' = [pc EXCEPT ![p] = "Sleep"]
         /\ berr' = [berr EXCEPT ![p] = "nil"]
         /\ ret' = [ret EXCEPT ![p] = "nil"]
    ELSE IF outcome = "AlreadyExists"
    THEN /\ pc' = [pc EXCEPT ![p] = "Sleep"]
         /\ UNCHANGED <<berr, ret>>
    ELSE Return(p, "ErrCreateConfigMap")

\* CreateSwitch with every error of the create retried.
CreateSwitchRetryAll(p, outcome) ==
    IF outcome = "Created"
    THEN Return(p, "nil")
    ELSE /\ pc' = [pc EXCEPT ![p] = "Sleep"]
         /\ UNCHANGED <<berr, ret>>

\* The switch on the result of the create (lines 95-105).
CreateSwitch(p, outcome) ==
    IF outcome = "Created"
    THEN Return(p, "nil")
    ELSE IF outcome = "AlreadyExists"
    THEN /\ pc' = [pc EXCEPT ![p] = "Sleep"]
         /\ UNCHANGED <<berr, ret>>
    ELSE Return(p, "ErrCreateConfigMap")

\* _, err := client.CoreV1().ConfigMaps(ns).Create(cm): the API server
\* creates the ConfigMap unless one exists under that (namespace, name).
CreateLock(p, fault) ==
    /\ Running(p)
    /\ pc[p] = "Create"
    /\ Count(p, "Create") < MaxCreates
    /\ LET k == LockKey(p)
           outcome == IF fault THEN "Error"
                      ELSE IF store[k] = NoRecord THEN "Created"
                      ELSE "AlreadyExists"
       IN /\ Logged(p, "Create", outcome)
          /\ store' = IF outcome = "Created"
                      THEN [store EXCEPT ![k] = LockConfigMap(name[p], ns[p], owner[p])]
                      ELSE store
          /\ CreateSwitch(p, outcome)
    /\ UNCHANGED <<env, name, ns, client, owner>>

\* Sleep with the loop starting over at the read.
SleepThenReread(p) ==
    /\ Running(p)
    /\ pc[p] = "Sleep"
    /\ Logged(p, "Sleep", "ok")
    /\ pc' = [pc EXCEPT ![p] = "Get"]
    /\ UNCHANGED <<env, store, name, ns, client, owner, berr, ret>>

\* time.Sleep(time.Second * 1), then the next iteration of the for loop
Sleep(p) ==
    /\ Running(p)
    /\ pc[p] = "Sleep"
    /\ Logged(p, "Sleep", "ok")
    /\ pc' = [pc EXCEPT ![p] = "Create"]
    /\ UNCHANGED <<env, store, name, ns, client, owner, berr, ret>>

\* ------------------------------------------------------------------ Next
Next ==
    \/ \E p \in Pods, nm \in LockNames : StartPod(p, nm)
    \/ \E p \in Pods : DestroyPod(p)
    \/ \E p \in Pods : Restart(p)
    \/ \E k \in DOMAIN store : GarbageCollect(k)
    \/ \E p \in Pods, o \in {"ok", "notexist", "error"} :
          \E c \in NSFileContents(podNS[p]) : MyNS(p, o, c)
    \/ \E p \in Pods, o \in {"ok", "error"} : GetClientset(p, o)
    \/ \E p \in Pods, f \in {"none", "hostname", "getpod"} : MyOwnerRef(p, f)
    \/ \E p \in Pods, f \in BOOLEAN : GetLock(p, f)
    \/ \E p \in Pods, f \in BOOLEAN : CreateLock(p, f)
    \/ \E p \in Pods : Sleep(p)

Spec == Init /\ [][Next]_vars

\* ------------------------------------------------------------- the race
\* The Pods that can exist side by side: no two share a name.
Racers == {p \in Pods : PodName(p) = p}

\* All racers have started, no lock exists, and nothing fails or is removed.
RaceInit ==
    /\ podNS \in NSLayouts
    /\ podState = [p \in Pods |-> IF p \in Racers THEN "live" ELSE "pending"]
    /\ store = [k \in Namespaces \X LockNames |-> NoRecord]
    /\ entry \in {"Become", "TryBecome"}
    /\ pc = [p \in Pods |-> IF p \in Racers THEN "myNS" ELSE "idle"]
    /\ name \in [Pods -> LockNames \cup {"none"}]
    /\ \A p \in Pods : name[p] = "none" <=> p \notin Racers
    /\ ns = [p \in Pods |-> NoNS]
    /\ client = [p \in Pods |-> "none"]
    /\ owner = [p \in Pods |-> NoOwner]
    /\ berr = [p \in Pods |-> "running"]
    /\ ret = [p \in Pods |-> "running"]
    /\ log = [p \in Pods |-> <<>>]

RaceNext ==
    \/ \E p \in Pods : \E c \in NSFileContents(podNS[p]) : MyNS(p, "ok", c)
    \/ \E p \in Pods : GetClientset(p, "ok")
    \/ \E p \in Pods : MyOwnerRef(p, "none")
    \/ \E p \in Pods : GetLock(p, FALSE)
    \/ \E p \in Pods : CreateLock(p, FALSE)
    \/ \E p \in Pods : Sleep(p)

RaceSpec == RaceInit /\ [][RaceNext]_vars

\* ------------------------------------------------------------- hand-over
\* Pods come and go and the garbage collector runs, but no call fails.  A
\* process that is in the loop keeps running: its Create call returns and
\* its Sleep ends.
LiveNext ==
    \/ \E p \in Pods, nm \in LockNames : StartPod(p, nm)
    \/ \E p \in Pods : DestroyPod(p)
    \/ \E p \in Pods : Restart(p)
    \/ \E k \in DOMAIN store : GarbageCollect(k)
    \/ \E p \in Pods : \E c \in NSFileContents(podNS[p]) : MyNS(p, "ok", c)
    \/ \E p \in Pods : GetClientset(p, "ok")
    \/ \E p \in Pods : MyOwnerRef(p, "none")
    \/ \E p \in Pods : GetLock(p, FALSE)
    \/ \E p \in Pods : CreateLock(p, FALSE)
    \/ \E p \in Pods : Sleep(p)

LiveSpec ==
    /\ Init
    /\ [][LiveNext]_vars
    /\ \A p \in Pods : WF_vars(CreateLock(p, FALSE)) /\ WF_vars(Sleep(p))

TypeOK ==
    /\ podNS \in NSLayouts
    /\ podState \in [Pods -> {"pending", "live", "gone"}]
    /\ entry \in {"Become", "TryBecome"}
    /\ pc \in [Pods -> {"idle", "myNS", "getClientset", "myOwnerRef", "Get",
                        "Create", "Sleep", "returned"}]
    /\ berr \in [Pods -> {"running", "nil"} \cup Errors]
    /\ ret \in [Pods -> {"running", "nil"} \cup Errors]
    /\ \A p \in Pods : Count(p, "Create") <= MaxCreates /\ Count(p, "Get") <= 1

\* ------------------------------------------------------------ properties
\* The lock a candidate competes for.
Key(p) == <<podNS[p], name[p]>>

\* Become has returned nil to the process of Pod p, and the Pod still exists.
LiveLeader(p) == podState[p] = "live" /\ pc[p] = "returned" /\ berr[p] = "nil"

LiveLeaders(k) == {p \in Pods : LiveLeader(p) /\ Key(p) = k}

\* C1: for every (name, namespace), at most one candidate whose Pod still
\* exists has had Become return nil (Leader).
MutualExclusion ==
    \A k \in DOMAIN store : Cardinality(LiveLeaders(k)) <= 1

\* The step in which candidate p reads the lock and returns nil at once.
SelfRecognised(p) ==
    /\ pc[p] = "Get"
    /\ pc'[p] = "returned"
    /\ berr'[p] = "nil"

HasOwnerUID(rec, uid) ==
    /\ rec # NoRecord
    /\ \E i \in DOMAIN rec.OwnerReferences : rec.OwnerReferences[i].UID = uid

\* C2: Become returns nil straight after the read only if the record it
\* read names an owner with the caller's own UID.
SelfRecognitionByUID ==
    [][\A p \in Pods :
          SelfRecognised(p) => HasOwnerUID(store[<<ns[p], name[p]>>], owner[p].UID)]_vars


\* The outcomes of the Create calls of p's call, in order.
IsCreate(e) == e.op = "Create"
CreateOutcomes(p) == SelectSeq(log[p], IsCreate)
IsGet(e) == e.op = "Get"
GetOutcomes(p) == SelectSeq(log[p], IsGet)

Contenders(k) == {p \in Pods : Running(p) /\ Key(p) = k}
Winners(k) == {p \in Contenders(k) : berr[p] = "nil"}
Tried(k) == {p \in Contenders(k) : CreateOutcomes(p) # <<>>}

\* C3: in the race on an empty store, once any contender for a lock has
\* issued a create exactly one contender has had its create succeed and has
\* returned nil; every other contender that has issued a create was answered
\* AlreadyExists on the first one and is still in the loop, and no other
\* contender has returned at all.
RaceOneWinner ==
    \A k \in DOMAIN store :
        /\ Tried(k) # {} => Cardinality(Winners(k)) = 1
        /\ Tried(k) = {} => Winners(k) = {}
        /\ \A p \in Winners(k) :
              /\ CreateOutcomes(p) # <<>>
              /\ CreateOutcomes(p)[Len(CreateOutcomes(p))].out = "Created"
              /\ HasOwnerUID(store[k], p)
        /\ \A p \in Contenders(k) \ Winners(k) :
              /\ berr[p] = "running"
              /\ pc[p] # "returned"
              /\ p \in Tried(k) =>
                    /\ CreateOutcomes(p)[1].out = "AlreadyExists"
                    /\ pc[p] \in {"Create", "Sleep"}

\* A race that was a race: a loser read NotFound, and then lost the create.
RaceWitness ==
    \E k \in DOMAIN store :
        /\ Cardinality(Winners(k)) = 1
        /\ \E p \in Contenders(k) \ Winners(k) :
              /\ GetOutcomes(p) # <<>>
              /\ GetOutcomes(p)[1].out = "NotFound"
              /\ CreateOutcomes(p) # <<>>
              /\ CreateOutcomes(p)[1].out = "AlreadyExists"


Last(lg) == lg[Len(lg)]
NoCreateOrSleep(lg) == \A i \in DOMAIN lg : lg[i].op \notin {"Create", "Sleep"}
GetEntry(out) == [op |-> "Get", out |-> out]

\* The lock under k is owned by exactly the owner reference o.
OwnedBy(k, o) ==
    /\ store[k] # NoRecord
    /\ \E i \in DOMAIN store[k].OwnerReferences : store[k].OwnerReferences[i] = o

\* C4: when a call reads a lock that carries the caller's own owner
\* reference, it returns nil in that step, having issued no create and no
\* sleep, and the store is unchanged.
RestartIdempotent ==
    [][\A p \in Pods :
          ( /\ pc[p] = "Get"
            /\ OwnedBy(<<ns[p], name[p]>>, owner[p])
            /\ log'[p] = Append(log[p], GetEntry("Found")) )
          => /\ pc'[p] = "returned"
             /\ berr'[p] = "nil"
             /\ ret'[p] = "nil"
             /\ NoCreateOrSleep(log'[p])
             /\ store' = store]_vars

\* A restarted leader has found its own lock.
RestartWitness ==
    \E p \in Pods :
        /\ LiveLeader(p)
        /\ Last(log[p]) = GetEntry("Found")
        /\ NoCreateOrSleep(log[p])
        /\ OwnedBy(Key(p), owner[p])
        /\ owner[p].UID = p

\* C6 as claimed: between any two create calls of one call there is a read.
RetryRereads ==
    \A p \in Pods : \A i, j \in CallsOf(p, "Create") :
        i < j => \E m \in CallsOf(p, "Get") : i < m /\ m < j

\* C6 as the code has it: a create answered AlreadyExists is followed by
\* exactly one sleep and then by the next create; the lock is read once per
\* call, before the first create, and never again.
RetrySleepsOnceNoReread ==
    \A p \in Pods :
        /\ Count(p, "Get") <= 1
        /\ \A i \in CallsOf(p, "Create") : \E m \in CallsOf(p, "Get") : m < i
        /\ \A i \in CallsOf(p, "Create") :
              log[p][i].out = "AlreadyExists" =>
                 /\ i = Len(log[p]) => pc[p] = "Sleep"
                 /\ i < Len(log[p]) => log[p][i + 1].op = "Sleep"
        /\ \A i \in CallsOf(p, "Sleep") :
              /\ i > 1
              /\ log[p][i - 1] = [op |-> "Create", out |-> "AlreadyExists"]
              /\ i = Len(log[p]) => pc[p] = "Create"
              /\ i < Len(log[p]) => log[p][i + 1].op = "Create"

\* A call that has retried: two creates, one read.
RetryWitness ==
    \E p \in Pods :
        /\ Count(p, "Create") >= 2
        /\ Count(p, "Sleep") >= 1
        /\ Count(p, "Get") = 1

\* C7: a read that fails is the last call of its Become call, which has
\* returned that error having issued no create and no sleep; the failing
\* read leaves the store as it was.
FatalOnRead ==
    /\ [](\A p \in Pods : \A i \in DOMAIN log[p] :
             log[p][i] = GetEntry("Error") =>
                /\ i = Len(log[p])
                /\ pc[p] = "returned"
                /\ berr[p] = "ErrGetConfigMap"
                /\ ret[p] = "ErrGetConfigMap"
                /\ NoCreateOrSleep(log[p]))
    /\ [][\A p \in Pods :
             log'[p] = Append(log[p], GetEntry("Error")) => store' = store]_vars

\* A read has failed while a lock existed.
FatalOnReadWitness ==
    \E p \in Pods :
        /\ log[p] # <<>>
        /\ Last(log[p]) = GetEntry("Error")
        /\ berr[p] = "ErrGetConfigMap"
        /\ store[Key(p)] # NoRecord

CreateEntry(out) == [op |-> "Create", out |-> out]

\* C8: a create that fails with anything but AlreadyExists is the last call
\* of its Become call, which has returned that error; every create that was
\* followed by another call was answered AlreadyExists.
FatalOnCreate ==
    \A p \in Pods : \A i \in CallsOf(p, "Create") :
        /\ log[p][i].out = "Error" =>
              /\ i = Len(log[p])
              /\ pc[p] = "returned"
              /\ berr[p] = "ErrCreateConfigMap"
              /\ ret[p] = "ErrCreateConfigMap"
        /\ i < Len(log[p]) => log[p][i].out = "AlreadyExists"
        /\ (i = Len(log[p]) /\ pc[p] # "returned") => log[p][i].out = "AlreadyExists"

\* A create has failed after a retry.
FatalOnCreateWitness ==
    \E p \in Pods :
        /\ Count(p, "Create") >= 2
        /\ Last(log[p]) = CreateEntry("Error")
        /\ berr[p] = "ErrCreateConfigMap"

NoNSEntry == [op |-> "myNS", out |-> "notexist"]

\* C9: when the namespace file does not exist, TryBecome returns nil with
\* myNS as the only call made: no client, no owner reference, no read and no
\* create; the step leaves the store as it was.
DisabledNoStoreCall ==
    /\ [](\A p \in Pods :
             (entry = "TryBecome" /\ log[p] # <<>> /\ log[p][1] = NoNSEntry) =>
                /\ log[p] = <<NoNSEntry>>
                /\ pc[p] = "returned"
                /\ ret[p] = "nil"
                /\ client[p] = "none"
                /\ owner[p] = NoOwner)
    /\ [][\A p \in Pods :
             (log[p] = <<>> /\ log'[p] = <<NoNSEntry>>) => store' = store]_vars

\* TryBecome has returned nil for want of a namespace while a lock exists.
DisabledWitness ==
    \E p \in Pods :
        /\ entry = "TryBecome"
        /\ log[p] = <<NoNSEntry>>
        /\ ret[p] = "nil"
        /\ \E k \in DOMAIN store : store[k] # NoRecord

\* What Become returns, by the outcome of the last call it made.
ResultOf(e) ==
    CASE e.out = "ok" -> "running"
      [] e.op = "myNS" /\ e.out = "notexist" -> ErrNoNS
      [] e.op = "myNS" /\ e.out = "error" -> "ErrReadNS"
      [] e.op = "getClientset" /\ e.out = "error" -> "ErrClientset"
      [] e.op = "myOwnerRef" /\ e.out = "hostname" -> "ErrHostname"
      [] e.op = "myOwnerRef" /\ e.out = "getpod" -> "ErrGetPod"
      [] e.op = "Get" /\ e.out = "Error" -> "ErrGetConfigMap"
      [] e.op = "Create" /\ e.out = "Created" -> "nil"
      [] e.op = "Create" /\ e.out = "Error" -> "ErrCreateConfigMap"
      [] OTHER -> "running"

\* C10: under either entry point Become's result is the one the outcomes of
\* its calls determine, and the entry point returns it unchanged, except
\* that TryBecome returns nil where Become returns ErrNoNS.
TryBecomeLikeBecome ==
    \A p \in Pods :
        /\ pc[p] = "returned" <=> berr[p] # "running"
        /\ pc[p] = "returned" <=> ret[p] # "running"
        /\ pc[p] = "returned" =>
              /\ log[p] # <<>>
              /\ Last(log[p]) # GetEntry("Found") => berr[p] = ResultOf(Last(log[p]))
              /\ Last(log[p]) = GetEntry("Found") => berr[p] = "nil"
              /\ entry = "Become" => ret[p] = berr[p]
              /\ entry = "TryBecome" =>
                    ret[p] = IF berr[p] = ErrNoNS THEN "nil" ELSE berr[p]

\* TryBecome has returned nil for ErrNoNS in one call and passed another
\* identity error on in another.
TryBecomeWitness ==
    \E p, q \in Pods :
        /\ entry = "TryBecome"
        /\ berr[p] = ErrNoNS /\ ret[p] = "nil"
        /\ berr[q] = "ErrReadNS" /\ ret[q] = "ErrReadNS"


\* The candidate's latest create was answered AlreadyExists: it is waiting.
Waiting(p) ==
    /\ Running(p)
    /\ log[p] # <<>>
    /\ Last(log[p]) \in {CreateEntry("AlreadyExists"), [op |-> "Sleep", out |-> "ok"]}

\* C5: when the lock a candidate is waiting for has been removed, a live
\* candidate for that lock comes to have Become return nil, unless the
\* waiting candidate's Pod is removed or its process restarted first (the
\* candidate has creates left under the model's cap); and a create issued
\* while no lock exists succeeds, returns nil and leaves the lock owned by
\* its caller.
HandOver ==
    /\ \A p \in Pods :
          ( /\ Waiting(p)
            /\ Count(p, "Create") < MaxCreates
            /\ store[Key(p)] = NoRecord )
          ~> ( \/ LiveLeaders(Key(p)) # {}
               \/ podState[p] = "gone"
               \/ pc[p] = "myNS" )
    /\ [][\A p \in Pods :
             ( /\ pc[p] = "Create"
               /\ Len(log'[p]) = Len(log[p]) + 1
               /\ store[<<ns[p], name[p]>>] = NoRecord )
             => /\ Last(log'[p]) = CreateEntry("Created")
                /\ berr'[p] = "nil"
                /\ store'[<<ns[p], name[p]>>] = LockConfigMap(name[p], ns[p], owner[p])]_vars

\* A candidate that waited has become the leader after the former leader's
\* Pod was removed and its lock collected.
HandOverWitness ==
    \E p \in Pods :
        /\ LiveLeader(p)
        /\ Count(p, "Create") >= 2
        /\ Last(log[p]) = CreateEntry("Created")
        /\ \E q \in Pods : podState[q] = "gone" /\ podNS[q] = podNS[p]


\* C11: a call whose read or create meets a lock owned by another owner
\* (another UID) does not return in that step; its create is answered
\* AlreadyExists and is followed by the sleep.
BlocksWhileHeld ==
    [][\A p \in Pods :
          ( /\ pc[p] \in {"Get", "Create"}
            /\ Len(log'[p]) = Len(log[p]) + 1
            /\ store[<<ns[p], name[p]>>] # NoRecord
            /\ ~HasOwnerUID(store[<<ns[p], name[p]>>], owner[p].UID) )
          => /\ berr'[p] = "running"
             /\ pc'[p] # "returned"
             /\ pc[p] = "Create" =>
                   /\ Last(log'[p]) = CreateEntry("AlreadyExists")
                   /\ pc'[p] = "Sleep"]_vars

\* C16: a live candidate to which Become has returned nil holds the lock:
\* the lock exists and names the candidate's own Pod (by UID) as its owner.
LeaderHoldsRecord ==
    \A p \in Pods : LiveLeader(p) => HasOwnerUID(store[Key(p)], p)


\* The step is the garbage collector's: it removes a lock whose owner is gone.
CollectStep(k) ==
    /\ store[k] # NoRecord
    /\ OwnerGone(store[k])
    /\ store' = [store EXCEPT ![k] = NoRecord]
    /\ log' = log

\* The step is a call of candidate q that has not returned.
CallStep(q) ==
    /\ berr[q] = "running"
    /\ Len(log'[q]) = Len(log[q]) + 1

\* C12: once Become has returned (nil or an error) the call makes no further
\* call and stays returned, until the process is restarted or its Pod
\* removed; every later change of the store is a create of a candidate that
\* has not returned or a removal by the garbage collector.
ReturnedIsTerminal ==
    [][\A p \in Pods :
          berr[p] # "running" =>
             /\ log'[p] = log[p] \/ (log'[p] = <<>> /\ pc'[p] \in {"myNS", "idle"})
             /\ log'[p] = log[p] =>
                   /\ pc[p] = "returned" /\ pc'[p] = "returned"
                   /\ berr'[p] = berr[p] /\ ret'[p] = ret[p]
             /\ store' # store =>
                   \/ \E k \in DOMAIN store : CollectStep(k)
                   \/ \E q \in Pods \ {p} : CallStep(q) /\ pc[q] = "Create"]_vars

\* A leader has returned, and after it another candidate for the same lock
\* has tried, failed and returned.
ReturnedWitness ==
    \E p, q \in Pods :
        /\ p # q
        /\ LiveLeader(p)
        /\ HasOwnerUID(store[Key(p)], p)
        /\ Key(q) = Key(p)
        /\ pc[q] = "returned"
        /\ berr[q] = "ErrCreateConfigMap"
        /\ Count(q, "Create") >= 2


\* The step is candidate p's successful create of the lock under k.
CreatedBy(p, k) ==
    /\ pc[p] = "Create"
    /\ Running(p)
    /\ log'[p] = Append(log[p], CreateEntry("Created"))
    /\ store[k] = NoRecord
    /\ store' = [store EXCEPT ![k] = LockConfigMap(k[2], k[1], OwnerRefOf(p))]
    /\ k = Key(p)

\* C13: every lock in the store sits under its own (namespace, name) and
\* carries one owner reference, to a Pod of that namespace that has been
\* created; a lock appears only by one candidate's successful create, with
\* that candidate's owner reference, is never changed in place, and
\* disappears only by garbage collection once its owner Pod is gone.
LockLifecycle ==
    /\ [](\A k \in DOMAIN store :
             store[k] # NoRecord =>
                /\ store[k].Namespace = k[1] /\ store[k].Name = k[2]
                /\ Len(store[k].OwnerReferences) = 1
                /\ LET o == store[k].OwnerReferences[1] IN
                      /\ o = OwnerRefOf(o.UID)
                      /\ podNS[o.UID] = k[1]
                      /\ podState[o.UID] # "pending")
    /\ [][\A k \in DOMAIN store :
             store'[k] # store[k] =>
                \/ /\ \E p \in Pods : CreatedBy(p, k)
                   /\ Cardinality({p \in Pods : log'[p] # log[p]}) = 1
                \/ /\ CollectStep(k)
                   /\ ~ \E i \in DOMAIN store[k].OwnerReferences :
                          podState[store[k].OwnerReferences[i].UID] = "live"]_vars

\* A lock was created, collected after its owner's removal, and created
\* anew by a candidate that had been waiting.
LifecycleWitness ==
    \E k \in DOMAIN store : \E u, q \in Pods :
        /\ HasOwnerUID(store[k], u)
        /\ podState[u] = "live"
        /\ Count(u, "Sleep") >= 1
        /\ Last(log[u]) = CreateEntry("Created")
        /\ podState[q] = "gone"
        /\ PodName(q) # PodName(u)
        /\ podNS[q] = k[1]


\* C14: a read or create of a candidate is answered by the lock of the
\* candidate's own (namespace, name) alone and changes no other lock.
PartitionScoped ==
    [][\A p \in Pods :
          ( /\ pc[p] \in {"Get", "Create"}
            /\ Len(log'[p]) = Len(log[p]) + 1 )
          => /\ \A k \in DOMAIN store : k # Key(p) => store'[k] = store[k]
             /\ Last(log'[p]).out # "Error" =>
                   (Last(log'[p]).out \in {"NotFound", "Created"}
                       <=> store[Key(p)] = NoRecord)]_vars

\* Two live leaders of the same lock name, one in each namespace, each
\* owning the lock of its namespace, both by a create.
TwoNamespacesWitness ==
    \E p, q \in Pods :
        /\ podNS[p] # podNS[q]
        /\ name[p] = name[q]
        /\ LiveLeader(p) /\ LiveLeader(q)
        /\ HasOwnerUID(store[Key(p)], p)
        /\ HasOwnerUID(store[Key(q)], q)
        /\ Last(log[p]) = CreateEntry("Created")
        /\ Last(log[q]) = CreateEntry("Created")


\* The calls of a Become call up to and including a read answered NotFound.
UpToNotFound ==
    << [op |-> "myNS", out |-> "ok"], [op |-> "getClientset", out |-> "ok"],
       [op |-> "myOwnerRef", out |-> "ok"], GetEntry("NotFound") >>

\* C15: a call whose read was answered NotFound goes on to the create with
\* the read as its only call to the lock so far; if no lock has appeared
\* since and the create does not fail, that first create succeeds with no
\* sleep before it, Become returns nil, and the store holds the lock under
\* the caller's (namespace, name) with the caller's Pod as its owner.
UncontendedAcquire ==
    /\ [](\A p \in Pods :
             (log[p] # <<>> /\ Last(log[p]) = GetEntry("NotFound")) =>
                /\ log[p] = UpToNotFound
                /\ pc[p] = "Create"
                /\ berr[p] = "running")
    /\ [][\A p \in Pods :
             ( /\ log[p] = UpToNotFound
               /\ Len(log'[p]) = Len(log[p]) + 1
               /\ store[Key(p)] = NoRecord
               /\ Last(log'[p]).out # "Error" )
             => /\ log'[p] = Append(UpToNotFound, CreateEntry("Created"))
                /\ pc'[p] = "returned"
                /\ berr'[p] = "nil"
                /\ ret'[p] = "nil"
                /\ store' = [store EXCEPT ![Key(p)] =
                               LockConfigMap(name[p], podNS[p], OwnerRefOf(p))]]_vars

\* The only candidate there is has acquired the lock at its first create.
UncontendedWitness ==
    \E p \in Pods :
        /\ \A q \in Pods \ {p} : podState[q] = "pending"
        /\ LiveLeader(p)
        /\ log[p] = Append(UpToNotFound, CreateEntry("Created"))
        /\ OwnedBy(Key(p), OwnerRefOf(p))
        /\ \A k \in DOMAIN store : k # Key(p) => store[k] = NoRecord


\* The calls that resolve the identity, in the order Become makes them.
Resolution == <<"myNS", "getClientset", "myOwnerRef">>

\* C17: the first three calls of a Become call are myNS, getClientset and
\* myOwnerRef, in that order and once each, and every read or create comes
\* after them; if one of the three fails it is the call's last call and
\* Become has returned its error; from the read on, the namespace, the
\* client and the owner reference are the ones resolved (the Pod's own), and
\* a lock the call has created carries exactly them.
ResolutionFirst ==
    \A p \in Pods :
        /\ \A i \in DOMAIN log[p] :
              /\ i <= 3 => log[p][i].op = Resolution[i]
              /\ i > 3 => log[p][i].op \in {"Get", "Create", "Sleep"}
              /\ (i <= 3 /\ log[p][i].out # "ok") =>
                    /\ i = Len(log[p])
                    /\ pc[p] = "returned"
                    /\ berr[p] \in Errors
                    /\ berr[p] = ResultOf(log[p][i])
        /\ pc[p] \in {"Get", "Create", "Sleep"} => Len(log[p]) >= 3
        /\ Len(log[p]) >= 3 /\ log[p][3].out = "ok" =>
              /\ ns[p] = podNS[p]
              /\ client[p] = "clientset"
              /\ owner[p] = OwnerRefOf(p)
              /\ name[p] \in LockNames
        /\ (log[p] # <<>> /\ Last(log[p]) = CreateEntry("Created")
              /\ HasOwnerUID(store[Key(p)], p)) =>
              store[Key(p)] = LockConfigMap(name[p], ns[p], owner[p])

\* One call has resolved its identity and issued two creates; another has
\* failed to read its Pod and returned.
ResolutionWitness ==
    \E p, q \in Pods :
        /\ Count(p, "Create") >= 2
        /\ Last(log[p]) = CreateEntry("Created")
        /\ Len(log[q]) = 3
        /\ berr[q] = "ErrGetPod"

=============================================================================
